---- MODULE Spec2Model ----
(***************************************************************************)
(* A model of port_scanner.c: the owner thread (main), the job queue       *)
(* (JobQueue, get_next_port), the worker threads (worker) and the two      *)
(* output channels (stdout and scan_results.txt) guarded by print_lock.    *)
(*                                                                         *)
(* Every worker step is one call that other threads can observe: a lock    *)
(* or unlock, one access to the queue cursor, one socket call, one write   *)
(* to a channel.  Purely local computation is folded into the step that    *)
(* follows it.                                                             *)
(***************************************************************************)
EXTENDS Integers, Sequences, FiniteSets, TLC

\* ------------------------------------------------------------- bounds
\* Largest worker count (num_threads) and largest range size the model
\* enumerates.
MaxWorkers == 2
MaxPorts == 3

\* ---------------------------------------------------- program constants
\* char banner[512]
BannerBuf == 512
\* INVALID_SOCKET / "no socket" marker of a worker
NoSocket == 0
\* The value get_next_port returns for an exhausted queue.
Exhausted == -1
\* No thread holds the mutex.
Unlocked == -1

\* First port of the ranges the model scans: 79..81 holds a port with a
\* service label (80) between two without.
StartChoices == {79}
\* The target address (argv[1], parsed into tmp) and the default of
\* TIMEOUT_MS.
TargetChoices == {"127.0.0.1"}
DefaultTimeout == 200

\* ---------------------------------------------------------------- bytes
NUL == 0
LF == 10

\* What the service on port p of the target sends on connect, as runs
\* <<byte, count>>: a NUL and a line feed; "hi\n"; more than the buffer
\* holds; nothing.
ServicePayload(p) ==
    CASE p = 79 -> << <<NUL, 1>>, <<LF, 1>> >>
      [] p = 80 -> << <<104, 1>>, <<105, 1>>, <<LF, 1>> >>
      [] p = 81 -> << <<65, 600>> >>
      [] OTHER -> << >>

RECURSIVE RunsLen(_)
RunsLen(r) == IF r = << >> THEN 0 ELSE Head(r)[2] + RunsLen(Tail(r))

\* The first k bytes of r.
RECURSIVE RunsTake(_, _)
RunsTake(r, k) ==
    IF k <= 0 \/ r = << >> THEN << >>
    ELSE IF Head(r)[2] <= k
         THEN <<Head(r)>> \o RunsTake(Tail(r), k - Head(r)[2])
         ELSE << <<Head(r)[1], k>> >>

\* The bytes of r before its first NUL: what printf's %s prints of a
\* buffer whose terminator is at banner[n].
RECURSIVE UpToNul(_)
UpToNul(r) ==
    IF r = << >> THEN << >>
    ELSE IF Head(r)[1] = NUL THEN << >>
         ELSE <<Head(r)>> \o UpToNul(Tail(r))

Min(a, b) == IF a <= b THEN a ELSE b

\* ------------------------------------------------------- service_name
service_name(p) ==
    CASE p = 20 \/ p = 21 -> "FTP"
      [] p = 22 -> "SSH"
      [] p = 23 -> "Telnet"
      [] p = 25 -> "SMTP"
      [] p = 53 -> "DNS"
      [] p = 80 -> "HTTP"
      [] p = 110 -> "POP3"
      [] p = 139 -> "NetBIOS"
      [] p = 143 -> "IMAP"
      [] p = 389 -> "LDAP"
      [] p = 443 -> "HTTPS"
      [] p = 445 -> "SMB"
      [] p = 3306 -> "MySQL"
      [] p = 3389 -> "RDP"
      [] OTHER -> ""

\* ------------------------------------------------------------- output
\* Text is a sequence of tokens: a literal of the format string, a %d
\* argument, or a run of raw bytes.  The "\n" that ends a format string
\* and a line feed inside a banner are the same byte.
Lit(s) == [k |-> "lit", s |-> s, n |-> 0, b |-> 0]
Num(i) == [k |-> "int", s |-> "", n |-> i, b |-> 0]
Bytes(r) == [j \in 1..Len(r) |-> [k |-> "bytes", s |-> "", n |-> r[j][2], b |-> r[j][1]]]
Newline == Bytes(<< <<LF, 1>> >>)

COLOR_GREEN == Lit("\\x1b[32m")
COLOR_RESET == Lit("\\x1b[0m")

\* "%s" of the banner buffer.
PrintBanner(bn) == Bytes(UpToNul(bn))

\* Mutant: only a result with a banner is written to the file.
FileRecord_BannerOnly(id, p, nread, bn, svc) ==
    IF nread > 0
    THEN <<Lit("[Thread "), Num(id), Lit("] Port "), Num(p), Lit(" OPEN - banner: ")>>
         \o PrintBanner(bn) \o
         (IF svc # "" THEN <<Lit(" ("), Lit(svc), Lit(")")>> ELSE << >>) \o Newline
    ELSE << >>

\* fprintf(OUTPUT_FILE, ...): the four format strings of worker().
FileRecord(id, p, nread, bn, svc) ==
    <<Lit("[Thread "), Num(id), Lit("] Port "), Num(p)>> \o
    (IF nread > 0
     THEN <<Lit(" OPEN - banner: ")>> \o PrintBanner(bn) \o
          (IF svc # "" THEN <<Lit(" ("), Lit(svc), Lit(")")>> ELSE << >>)
     ELSE <<Lit(" OPEN")>> \o
          (IF svc # "" THEN <<Lit(" ("), Lit(svc), Lit(")")>> ELSE << >>))
    \o Newline

\* printf(...): the same four with the colour codes.
ConsoleRecord(id, p, nread, bn, svc) ==
    <<COLOR_GREEN, Lit("[Thread "), Num(id), Lit("] Port "), Num(p)>> \o
    (IF nread > 0
     THEN <<Lit(" OPEN"), COLOR_RESET, Lit(" - banner: ")>> \o PrintBanner(bn) \o
          (IF svc # "" THEN <<Lit(" ("), Lit(svc), Lit(")")>> ELSE << >>)
     ELSE <<Lit(" OPEN")>> \o
          (IF svc # "" THEN <<Lit(" ("), Lit(svc), Lit(")")>> ELSE << >>) \o
          <<COLOR_RESET>>)
    \o Newline

\* Reading a channel back: its lines, and the records that start in it.
RECURSIVE LineFeeds(_)
LineFeeds(t) ==
    IF t = << >> THEN 0
    ELSE (IF Head(t).k = "bytes" /\ Head(t).b = LF THEN Head(t).n ELSE 0)
         + LineFeeds(Tail(t))

\* <<thread id, port>> of every record in t, in order.
RECURSIVE RecordsOf(_)
RecordsOf(t) ==
    IF Len(t) < 4 THEN << >>
    ELSE IF t[1] = Lit("[Thread ")
         THEN << <<t[2].n, t[4].n>> >> \o RecordsOf(Tail(t))
         ELSE RecordsOf(Tail(t))

VARIABLES
    \* configuration (set in main before the first worker starts): the
    \* parsed target address, the range start, the globals of lines 41-44,
    \* and which ports of the target accept
    tmp, start, num_threads, FULL_MODE, TIMEOUT_MS, openPorts,
    \* JobQueue q
    qsize, qports, qindex, qlock, qlockAlive,
    \* main
    mainPc, spawned, joined, exitCode, wsaUp,
    \* print_lock, stdout, OUTPUT_FILE (stdio buffer, file contents, open)
    plock, console, fileBuf, fileDisk, fileOpen,
    \* workers: position, locals port / index read / n / banner / s
    wpc, wport, widx, wn, wbanner, wsock,
    \* history: ports returned by get_next_port, in the order of the call's
    \* critical section; <<worker, port>> of every connect() that returned
    \* 0; of every socket() that failed; whether a thread has used the
    \* queue's mutex or port array after main released it (from then on
    \* what get_next_port does is undefined)
    dispensed, connected, sockFailed, ubQueue,
    \* sockets: the handles open in the process, each with the worker
    \* whose socket() call returned it; per worker, the sockets it created
    \* and the closesocket calls it made; per port, the connect() and
    \* recv() calls made for it
    sockOwner, created, closed, attempts, reads

cfgVars == <<tmp, start, num_threads, FULL_MODE, TIMEOUT_MS, openPorts>>
queueVars == <<qsize, qports, qindex, qlock, qlockAlive>>
mainVars == <<mainPc, spawned, joined, exitCode, wsaUp>>
sinkVars == <<plock, console, fileBuf, fileDisk, fileOpen>>
workerVars == <<wpc, wport, widx, wn, wbanner, wsock>>
histVars == <<dispensed, connected, sockFailed, ubQueue>>
probeVars == <<sockOwner, created, closed, attempts, reads>>
vars == <<cfgVars, queueVars, mainVars, sinkVars, workerVars, histVars, probeVars>>

\* Thread ids: those the model has room for, and those of this run.
WorkerIds == 0..(MaxWorkers - 1)
Workers == 0..(num_threads - 1)
PortSet == start..(start + qsize - 1)

\* ------------------------------------------------------------- Init
\* The state at line 166, before the first pthread_create: the queue is
\* filled (lines 128-142), the output file is open (145-153), the thread
\* array allocated (156), the "Scanning ..." line printed (121).  The
\* range is a valid one (start <= end), as the command line is expected
\* to give.
Init ==
    /\ tmp \in TargetChoices
    /\ TIMEOUT_MS = DefaultTimeout
    /\ start \in StartChoices
    /\ num_threads \in 1..MaxWorkers
    /\ FULL_MODE \in {0, 1}
    /\ qsize \in 1..MaxPorts
    /\ openPorts \in SUBSET (start..(start + qsize - 1))
    /\ qports = [i \in 0..(qsize - 1) |-> start + i]
    /\ qindex = 0
    /\ qlock = Unlocked
    /\ qlockAlive = TRUE
    /\ mainPc = "spawn"
    /\ spawned = 0
    /\ joined = 0
    /\ exitCode = 0
    /\ wsaUp = TRUE
    /\ plock = Unlocked
    /\ console = <<Lit("Scanning ...")>> \o Newline
    /\ fileBuf = << >>
    /\ fileDisk = << >>
    /\ fileOpen = TRUE
    /\ wpc = [w \in WorkerIds |-> "unborn"]
    /\ wport = [w \in WorkerIds |-> 0]
    /\ widx = [w \in WorkerIds |-> 0]
    /\ wn = [w \in WorkerIds |-> 0]
    /\ wbanner = [w \in WorkerIds |-> << >>]
    /\ wsock = [w \in WorkerIds |-> NoSocket]
    /\ dispensed = << >>
    /\ connected = {}
    /\ sockFailed = {}
    /\ ubQueue = FALSE
    /\ sockOwner = << >>
    /\ created = [w \in WorkerIds |-> 0]
    /\ closed = [w \in WorkerIds |-> 0]
    /\ attempts = [p \in (start..(start + qsize - 1)) \cup {0} |-> 0]
    /\ reads = [p \in (start..(start + qsize - 1)) \cup {0} |-> 0]

\* The process is alive until main returns; returning from main ends
\* every thread.
Running == mainPc # "exited"

\* ------------------------------------------------------ get_next_port
\* Mutant: the queue lock excludes nobody.
QueueLockFree_NoExclusion == TRUE

\* pthread_mutex_lock(&q->lock) returns once no other thread holds it.
QueueLockFree == qlock = Unlocked

\* pthread_mutex_lock(&q->lock), line 313.  On a destroyed mutex the call
\* is undefined: it may behave as before, or return an error (which the
\* code does not look at) without taking the lock.
LockQueue(w) ==
    /\ Running
    /\ wpc[w] = "lock_q"
    /\ UNCHANGED probeVars
    /\ \/ /\ qlockAlive
          /\ QueueLockFree
          /\ qlock' = w
          /\ ubQueue' = ubQueue
       \/ /\ ~qlockAlive
          /\ \/ QueueLockFree /\ qlock' = w
             \/ qlock' = qlock
          /\ ubQueue' = TRUE
    /\ wpc' = [wpc EXCEPT ![w] = "check"]
    /\ UNCHANGED <<cfgVars, qsize, qports, qindex, qlockAlive, mainVars, sinkVars,
                   wport, widx, wn, wbanner, wsock, dispensed, connected, sockFailed>>

\* Mutant: the test is off by one.
QueueExhausted_OffByOne == qindex + 1 >= qsize

\* The test of line 315.
QueueExhausted == qindex >= qsize

\* if (q->index >= q->size), line 315.
CheckIndex(w) ==
    /\ Running
    /\ wpc[w] = "check"
    /\ UNCHANGED probeVars
    /\ wpc' = [wpc EXCEPT ![w] = IF QueueExhausted THEN "unlock_ex" ELSE "take"]
    /\ UNCHANGED <<cfgVars, queueVars, mainVars, sinkVars,
                   wport, widx, wn, wbanner, wsock, histVars>>

\* Mutant: the unlock is left out.
QueueUnlocked_Forgotten(w) == qlock

\* pthread_mutex_unlock(&q->lock); a thread that does not hold the mutex
\* (only after a lock call on a destroyed mutex) leaves it as it is.
QueueUnlocked(w) == IF qlock = w THEN Unlocked ELSE qlock

\* Lines 316-317 and 238-239: unlock, return -1, leave the loop.
UnlockExhausted(w) ==
    /\ Running
    /\ wpc[w] = "unlock_ex"
    /\ UNCHANGED probeVars
    /\ qlock' = QueueUnlocked(w)
    /\ wport' = [wport EXCEPT ![w] = Exhausted]
    /\ wpc' = [wpc EXCEPT ![w] = "done"]
    /\ UNCHANGED <<cfgVars, qsize, qports, qindex, qlockAlive, mainVars, sinkVars,
                   widx, wn, wbanner, wsock, histVars>>

\* q->index++ of line 320, its read.
TakeRead(w) ==
    /\ Running
    /\ wpc[w] = "take"
    /\ UNCHANGED probeVars
    /\ widx' = [widx EXCEPT ![w] = qindex]
    /\ wpc' = [wpc EXCEPT ![w] = "take_w"]
    /\ UNCHANGED <<cfgVars, queueVars, mainVars, sinkVars,
                   wport, wn, wbanner, wsock, histVars>>

\* What a read of q->ports[i] can give: the element, or, once the array
\* is freed or for an index outside it, any value.
PortsRead(i) ==
    IF i \in DOMAIN qports THEN {qports[i]} ELSE PortSet \cup {0}

\* Mutant: the cursor advances by two.
NextIndex_Skip(i) == i + 2

\* The new cursor value stored by q->index++.
NextIndex(i) == i + 1

\* q->ports[q->index++] of line 320: the store of the cursor and the load
\* of the port.
TakeWrite(w) ==
    /\ Running
    /\ wpc[w] = "take_w"
    /\ UNCHANGED probeVars
    /\ qindex' = NextIndex(widx[w])
    /\ \E p \in PortsRead(widx[w]) :
          /\ wport' = [wport EXCEPT ![w] = p]
          /\ dispensed' = Append(dispensed, <<w, p>>)
    /\ ubQueue' = (ubQueue \/ widx[w] \notin DOMAIN qports)
    /\ wpc' = [wpc EXCEPT ![w] = "unlock"]
    /\ UNCHANGED <<cfgVars, qsize, qports, qlock, qlockAlive, mainVars, sinkVars,
                   widx, wn, wbanner, wsock, connected, sockFailed>>

\* Lines 321-322 and 238: unlock, return the port, go on to probe it.
UnlockDispensed(w) ==
    /\ Running
    /\ wpc[w] = "unlock"
    /\ UNCHANGED probeVars
    /\ qlock' = QueueUnlocked(w)
    /\ wpc' = [wpc EXCEPT ![w] = "socket"]
    /\ UNCHANGED <<cfgVars, qsize, qports, qindex, qlockAlive, mainVars, sinkVars,
                   wport, widx, wn, wbanner, wsock, histVars>>

get_next_port(w) ==
    \/ LockQueue(w)
    \/ CheckIndex(w)
    \/ UnlockExhausted(w)
    \/ TakeRead(w)
    \/ TakeWrite(w)
    \/ UnlockDispensed(w)

\* ------------------------------------------------------------- worker
\* The smallest handle socket() returns for an open socket.
OpenSocket == 1

\* The handles that are open.
openHandles == DOMAIN sockOwner

\* Mutant: socket() returns the same handle every time.
NewHandle_Same == OpenSocket

\* The handle of a new socket: one that is not open (the smallest).
NewHandle ==
    CHOOSE h \in OpenSocket..(OpenSocket + Cardinality(openHandles)) :
        /\ h \notin openHandles
        /\ \A g \in OpenSocket..(h - 1) : g \in openHandles

\* Where a worker goes when socket() returns INVALID_SOCKET, lines 247-248:
\* return NULL.
AfterSocketFailure == "done"

\* socket(AF_INET, SOCK_STREAM, 0) and the two setsockopt calls, lines
\* 241-252.  The call can fail at any time, and fails once WSACleanup has
\* run.
Socket(w) ==
    /\ Running
    /\ wpc[w] = "socket"
    /\ \/ /\ wsaUp
          /\ wsock' = [wsock EXCEPT ![w] = NewHandle]
          /\ sockOwner' = [h \in openHandles \cup {NewHandle} |->
                              IF h = NewHandle THEN w ELSE sockOwner[h]]
          /\ created' = [created EXCEPT ![w] = @ + 1]
          /\ wpc' = [wpc EXCEPT ![w] = "connect"]
          /\ UNCHANGED sockFailed
       \/ /\ wsock' = [wsock EXCEPT ![w] = NoSocket]
          /\ wpc' = [wpc EXCEPT ![w] = AfterSocketFailure]
          /\ sockFailed' = sockFailed \cup {<<w, wport[w]>>}
          /\ UNCHANGED <<sockOwner, created>>
    /\ UNCHANGED <<cfgVars, queueVars, mainVars, sinkVars,
                   wport, widx, wn, wbanner, dispensed, connected, ubQueue,
                   closed, attempts, reads>>

\* The target: a port accepts a connection or refuses it, always the same.
ConnectResult(p) == IF wsaUp /\ p \in openPorts THEN 0 ELSE -1

\* Mutant: the banner is read in either mode.
BannerGrab_Always == TRUE

\* if (FULL_MODE), line 259.
BannerGrab == FULL_MODE # 0

\* Mutant: a failed connect is tried again.
AfterConnectFailure_Retry == "connect"

\* Mutant: a failed connect skips closesocket.
AfterConnectFailure_NoClose == "lock_q"

\* Where a worker goes when connect() fails: past the if of line 256 to
\* closesocket, line 305.
AfterConnectFailure == "close"

\* connect(), line 254, and the branch on its result, line 256.  In fast
\* mode n stays 0 (line 258) and no read is made.
Connect(w) ==
    /\ Running
    /\ wpc[w] = "connect"
    /\ attempts' = [attempts EXCEPT ![wport[w]] = @ + 1]
    /\ IF ConnectResult(wport[w]) = 0
       THEN /\ connected' = connected \cup {<<w, wport[w]>>}
            /\ wpc' = [wpc EXCEPT ![w] = IF BannerGrab THEN "recv" ELSE "lock_p"]
       ELSE /\ connected' = connected
            /\ wpc' = [wpc EXCEPT ![w] = AfterConnectFailure]
    /\ wn' = [wn EXCEPT ![w] = 0]
    /\ UNCHANGED <<cfgVars, queueVars, mainVars, sinkVars,
                   wport, widx, wbanner, wsock, dispensed, sockFailed, ubQueue,
                   sockOwner, created, closed, reads>>

\* Mutant: recv is given the whole buffer, sizeof(banner).
RecvResults_WholeBuffer(payload) ==
    IF ~wsaUp THEN {-1}
    ELSE {Min(RunsLen(payload), BannerBuf), 0, -1}

\* What recv(s, banner, sizeof(banner) - 1, 0) returns for a service that
\* sends payload: the number of bytes that fit, 0 (the peer closed
\* without sending), or -1 (SO_RCVTIMEO ran out first, or Winsock is
\* gone).
RecvResults(payload) ==
    IF ~wsaUp THEN {-1}
    ELSE {Min(RunsLen(payload), BannerBuf - 1), 0, -1}

\* recv(), line 260.
Recv(w) ==
    /\ Running
    /\ wpc[w] = "recv"
    /\ \E r \in RecvResults(ServicePayload(wport[w])) :
          /\ wn' = [wn EXCEPT ![w] = r]
          /\ wbanner' = [wbanner EXCEPT ![w] = RunsTake(ServicePayload(wport[w]), r)]
    /\ reads' = [reads EXCEPT ![wport[w]] = @ + 1]
    /\ wpc' = [wpc EXCEPT ![w] = "lock_p"]
    /\ UNCHANGED <<cfgVars, queueVars, mainVars, sinkVars,
                   wport, widx, wsock, histVars,
                   sockOwner, created, closed, attempts>>

\* Mutant: print_lock excludes nobody.
PrintLockFree_NoExclusion == TRUE

\* pthread_mutex_lock(&print_lock) returns once no other thread holds it.
PrintLockFree == plock = Unlocked

\* Line 264 (service_name, line 262, is computed where it is printed).
LockPrint(w) ==
    /\ Running
    /\ wpc[w] = "lock_p"
    /\ UNCHANGED probeVars
    /\ PrintLockFree
    /\ plock' = w
    /\ wpc' = [wpc EXCEPT ![w] = "printf"]
    /\ UNCHANGED <<cfgVars, queueVars, mainVars, console, fileBuf, fileDisk, fileOpen,
                   wport, widx, wn, wbanner, wsock, histVars>>

\* The printf of lines 266-299 that the branch on n and svc selects.
Printf(w) ==
    /\ Running
    /\ wpc[w] = "printf"
    /\ UNCHANGED probeVars
    /\ console' = console \o
          ConsoleRecord(w, wport[w], wn[w], wbanner[w], service_name(wport[w]))
    /\ wpc' = [wpc EXCEPT ![w] = "fprintf"]
    /\ UNCHANGED <<cfgVars, queueVars, mainVars, plock, fileBuf, fileDisk, fileOpen,
                   wport, widx, wn, wbanner, wsock, histVars>>

\* The fprintf of lines 266-299.  Writing to a closed FILE is undefined:
\* the text is lost.
Fprintf(w) ==
    /\ Running
    /\ wpc[w] = "fprintf"
    /\ UNCHANGED probeVars
    /\ IF fileOpen
       THEN fileBuf' = fileBuf \o
                FileRecord(w, wport[w], wn[w], wbanner[w], service_name(wport[w]))
       ELSE fileBuf' = fileBuf
    /\ wpc' = [wpc EXCEPT ![w] = "fflush"]
    /\ UNCHANGED <<cfgVars, queueVars, mainVars, plock, console, fileDisk, fileOpen,
                   wport, widx, wn, wbanner, wsock, histVars>>

\* fflush(OUTPUT_FILE), line 301: the buffered text reaches the file.
Fflush(w) ==
    /\ Running
    /\ wpc[w] = "fflush"
    /\ UNCHANGED probeVars
    /\ IF fileOpen
       THEN /\ fileDisk' = fileDisk \o fileBuf
            /\ fileBuf' = << >>
       ELSE UNCHANGED <<fileDisk, fileBuf>>
    /\ wpc' = [wpc EXCEPT ![w] = "unlock_p"]
    /\ UNCHANGED <<cfgVars, queueVars, mainVars, plock, console, fileOpen,
                   wport, widx, wn, wbanner, wsock, histVars>>

\* Mutant: the unlock of print_lock is left out.
PrintUnlocked_Forgotten(w) == plock

\* pthread_mutex_unlock(&print_lock).
PrintUnlocked(w) == IF plock = w THEN Unlocked ELSE plock

\* pthread_mutex_unlock(&print_lock), line 302.
UnlockPrint(w) ==
    /\ Running
    /\ wpc[w] = "unlock_p"
    /\ UNCHANGED probeVars
    /\ plock' = PrintUnlocked(w)
    /\ wpc' = [wpc EXCEPT ![w] = "close"]
    /\ UNCHANGED <<cfgVars, queueVars, mainVars, console, fileBuf, fileDisk, fileOpen,
                   wport, widx, wn, wbanner, wsock, histVars>>

\* closesocket(s), line 305, and the end of the loop body: s, n and
\* banner go out of scope.  The call closes s if it is open (it is not
\* once WSACleanup has run, and the call then fails).
Close(w) ==
    /\ Running
    /\ wpc[w] = "close"
    /\ sockOwner' = [h \in openHandles \ {wsock[w]} |-> sockOwner[h]]
    /\ closed' = [closed EXCEPT ![w] = @ + 1]
    /\ UNCHANGED <<created, attempts, reads>>
    /\ wsock' = [wsock EXCEPT ![w] = NoSocket]
    /\ wn' = [wn EXCEPT ![w] = 0]
    /\ wbanner' = [wbanner EXCEPT ![w] = << >>]
    /\ wpc' = [wpc EXCEPT ![w] = "lock_q"]
    /\ UNCHANGED <<cfgVars, queueVars, mainVars, sinkVars, wport, widx, histVars>>

worker(w) ==
    \/ get_next_port(w)
    \/ Socket(w)
    \/ Connect(w)
    \/ Recv(w)
    \/ LockPrint(w)
    \/ Printf(w)
    \/ Fprintf(w)
    \/ Fflush(w)
    \/ UnlockPrint(w)
    \/ Close(w)

\* --------------------------------------------------------------- main
\* One turn of the spawn loop, lines 167-183: malloc of the ThreadArgs
\* succeeds and the worker is created with id i (it frees its argument
\* and enters its loop, lines 231-237), or malloc fails and main goes to
\* its clean-up (the printf and free(threads) of lines 170-172) with exit
\* code 1.  pthread_create itself is taken to succeed.
Spawn ==
    /\ mainPc = "spawn"
    /\ UNCHANGED probeVars
    /\ spawned < num_threads
    /\ \/ /\ wpc' = [wpc EXCEPT ![spawned] = "lock_q"]
          /\ spawned' = spawned + 1
          /\ mainPc' = IF spawned + 1 < num_threads THEN "spawn" ELSE "join"
          /\ UNCHANGED <<exitCode, console>>
       \/ /\ exitCode' = 1
          /\ console' = console \o <<Lit("Failed to allocate thread args.")>> \o Newline
          /\ mainPc' = "fclose"
          /\ UNCHANGED <<wpc, spawned>>
    /\ UNCHANGED <<cfgVars, queueVars, joined, wsaUp, plock, fileBuf, fileDisk, fileOpen,
                   wport, widx, wn, wbanner, wsock, histVars>>

\* Mutant: the join does not wait.
Joinable_NoWait(i) == TRUE

\* pthread_join(threads[i], NULL) returns once thread i has ended.
Joinable(i) == wpc[i] = "done"

\* One turn of the join loop, lines 186-187.
Join ==
    /\ mainPc = "join"
    /\ UNCHANGED probeVars
    /\ joined < num_threads
    /\ Joinable(joined)
    /\ joined' = joined + 1
    /\ mainPc' = IF joined + 1 < num_threads THEN "join" ELSE "stats"
    /\ UNCHANGED <<cfgVars, queueVars, spawned, exitCode, wsaUp, sinkVars,
                   workerVars, histVars>>

\* Lines 189-198: "Scan complete.", the timing lines, free(threads).
Stats ==
    /\ mainPc = "stats"
    /\ UNCHANGED probeVars
    /\ console' = console \o <<Lit("Scan complete.")>> \o Newline
                           \o <<Lit("Total scan time: ")>> \o Newline
                           \o <<Lit("Ports per second: ")>> \o Newline
    /\ mainPc' = "fclose"
    /\ UNCHANGED <<cfgVars, queueVars, spawned, joined, exitCode, wsaUp,
                   plock, fileBuf, fileDisk, fileOpen, workerVars, histVars>>

\* fclose(out), lines 173 and 199: flushes what is buffered.
Fclose ==
    /\ mainPc = "fclose"
    /\ UNCHANGED probeVars
    /\ fileDisk' = fileDisk \o fileBuf
    /\ fileBuf' = << >>
    /\ fileOpen' = FALSE
    /\ mainPc' = "free_ports"
    /\ UNCHANGED <<cfgVars, queueVars, spawned, joined, exitCode, wsaUp,
                   plock, console, workerVars, histVars>>

\* free(q.ports), lines 174 and 200.
FreePorts ==
    /\ mainPc = "free_ports"
    /\ UNCHANGED probeVars
    /\ qports' = << >>
    /\ mainPc' = "destroy"
    /\ UNCHANGED <<cfgVars, qsize, qindex, qlock, qlockAlive, spawned, joined,
                   exitCode, wsaUp, sinkVars, workerVars, histVars>>

\* pthread_mutex_destroy(&q.lock), lines 175 and 201.  Destroying a mutex
\* a thread holds is undefined.
DestroyLock ==
    /\ mainPc = "destroy"
    /\ UNCHANGED probeVars
    /\ qlockAlive' = FALSE
    /\ ubQueue' = (ubQueue \/ qlock # Unlocked)
    /\ mainPc' = "wsacleanup"
    /\ UNCHANGED <<cfgVars, qsize, qports, qindex, qlock, spawned, joined,
                   exitCode, wsaUp, sinkVars, workerVars,
                   dispensed, connected, sockFailed>>

\* WSACleanup(), lines 176 and 202: Winsock closes the sockets that are
\* still open.
Cleanup ==
    /\ mainPc = "wsacleanup"
    /\ wsaUp' = FALSE
    /\ sockOwner' = << >>
    /\ UNCHANGED <<created, closed, attempts, reads>>
    /\ mainPc' = "return"
    /\ UNCHANGED <<cfgVars, queueVars, spawned, joined, exitCode,
                   sinkVars, workerVars, histVars>>

\* return 1 / return 0, lines 177 and 204: the process ends.
Return ==
    /\ mainPc = "return"
    /\ UNCHANGED probeVars
    /\ mainPc' = "exited"
    /\ UNCHANGED <<cfgVars, queueVars, spawned, joined, exitCode, wsaUp,
                   sinkVars, workerVars, histVars>>

main ==
    \/ Spawn
    \/ Join
    \/ Stats
    \/ Fclose
    \/ FreePorts
    \/ DestroyLock
    \/ Cleanup
    \/ Return

Next ==
    \/ main
    \/ \E w \in WorkerIds : worker(w)

Spec == Init /\ [][Next]_vars

\* Fair scheduling: main and every thread that can take a step eventually
\* takes one.
FairSpec ==
    /\ Spec
    /\ WF_vars(main)
    /\ \A w \in WorkerIds : WF_vars(worker(w))

\* ============================================================ properties
AllWorkersDone == \A w \in Workers : wpc[w] = "done"
\* The join loop of lines 186-187 has completed.
JoinCompleted == joined = num_threads
\* Every worker was spawned (the spawn loop has completed).
AllSpawned == spawned = num_threads
PortsOf(recs) == {recs[i][2] : i \in DOMAIN recs}
ThreadsOf(recs) == {recs[i][1] : i \in DOMAIN recs}
LastOf(q) == q[Len(q)]

\* ------------------------------------------------------------------ C1
\* C1: however the workers interleave in get_next_port, no port is
\* returned twice, to two callers or to the same one: the values other
\* than -1 returned over the run are pairwise different (while the queue
\* main built is the one the workers use).
C1_NoPortDispensedTwice ==
    ~ubQueue =>
        \A i, j \in 1..Len(dispensed) :
            i # j => dispensed[i][2] # dispensed[j][2]

\* Two workers have shared a whole range of at least two ports.
C1_Witness ==
    /\ ~ubQueue
    /\ JoinCompleted
    /\ qsize >= 2
    /\ Len(dispensed) = qsize
    /\ Cardinality(ThreadsOf(dispensed)) = 2

\* ------------------------------------------------------------------ C2
\* C2: when all workers have terminated and the join loop completes, the
\* queue cursor equals the queue size: every port has been dispensed.
C2_ScanEndsExhausted == JoinCompleted => qindex = qsize

\* ------------------------------------------------------------------ C3
\* C3: the set of ports recorded as open at the end of a scan is fixed by
\* the target, not by the worker count or the interleaving: it is the set
\* of accepting ports of the range (less those for which no socket could
\* be created).
C3_RecordedSetFixedByTarget ==
    JoinCompleted =>
        PortsOf(RecordsOf(fileDisk)) = openPorts \ {x[2] : x \in sockFailed}

\* ------------------------------------------------------------------ C4
InPrintSection(w) == wpc[w] \in {"printf", "fprintf", "fflush", "unlock_p"}

\* C4: at most one worker is inside the section print_lock guards, and
\* from the start of its write to the console until its record is written
\* and flushed to the file no other worker writes to either channel: the
\* last record of the console is its own, the stdio buffer holds its
\* record alone, and after the flush the last record of the file is its
\* own.
C4_RecordIndivisible ==
    \A w \in Workers :
        InPrintSection(w) =>
            /\ plock = w
            /\ \A v \in Workers : InPrintSection(v) => v = w
            /\ wpc[w] # "printf" =>
                   /\ RecordsOf(console) # << >>
                   /\ LastOf(RecordsOf(console)) = <<w, wport[w]>>
            /\ fileOpen =>
                   /\ wpc[w] \in {"printf", "fprintf", "unlock_p"} => fileBuf = << >>
                   /\ wpc[w] = "fflush" =>
                          RecordsOf(fileBuf) = << <<w, wport[w]>> >>
                   /\ wpc[w] = "unlock_p" =>
                          /\ RecordsOf(fileDisk) # << >>
                          /\ LastOf(RecordsOf(fileDisk)) = <<w, wport[w]>>

\* A worker is about to flush its record while another waits for the lock
\* and a record of that other worker is already in the file.
C4_Witness ==
    \E w, v \in Workers :
        /\ w # v
        /\ wpc[w] = "fflush"
        /\ wpc[v] = "lock_p"
        /\ v \in ThreadsOf(RecordsOf(fileDisk))

\* ------------------------------------------------------------------ C5
\* The text of a channel cut into the pieces that start at "[Thread ".
RECURSIVE SplitRecords(_)
SplitRecords(t) ==
    IF t = << >> THEN << >>
    ELSE LET rest == SplitRecords(Tail(t))
         IN  IF rest = << >> \/ Tail(t)[1] = Lit("[Thread ")
             THEN << <<Head(t)>> >> \o rest
             ELSE << <<Head(t)>> \o rest[1] >> \o Tail(rest)

\* One complete line of the documented form
\*   [Thread <id>] Port <port> OPEN [- banner: <bytes>] [(<service>)]
WellFormedRecord(r) ==
    /\ Len(r) >= 6
    /\ r[1] = Lit("[Thread ")
    /\ r[2].k = "int"
    /\ r[3] = Lit("] Port ")
    /\ r[4].k = "int"
    /\ r[5] \in {Lit(" OPEN"), Lit(" OPEN - banner: ")}
    /\ r[Len(r)] = Newline[1]
    /\ LET mid == SubSeq(r, 6, Len(r) - 1)
           hasSvc == /\ Len(mid) >= 3
                     /\ mid[Len(mid) - 2] = Lit(" (")
                     /\ mid[Len(mid) - 1].k = "lit"
                     /\ mid[Len(mid)] = Lit(")")
           body == IF hasSvc THEN SubSeq(mid, 1, Len(mid) - 3) ELSE mid
       IN  /\ \A i \in DOMAIN body : body[i].k = "bytes"
           /\ r[5] = Lit(" OPEN") => body = << >>

\* C5: at the end of a scan the log file holds exactly one complete
\* record for each probe whose connect succeeded and none for a port
\* whose connect failed: no port is in two records, and each record
\* carries the id of the worker the port was dispensed to.
C5_LogMatchesConnects ==
    JoinCompleted =>
        LET recs == RecordsOf(fileDisk)
        IN  /\ fileBuf = << >>
            /\ Len(recs) = Cardinality(connected)
            /\ {recs[i] : i \in DOMAIN recs} = connected
            /\ \A i, j \in DOMAIN recs : i # j => recs[i][2] # recs[j][2]
            /\ \A i \in DOMAIN recs :
                   /\ recs[i][2] \in openPorts
                   /\ \E d \in DOMAIN dispensed : dispensed[d] = recs[i]
            /\ Len(SplitRecords(fileDisk)) = Len(recs)
            /\ \A i \in DOMAIN SplitRecords(fileDisk) :
                   WellFormedRecord(SplitRecords(fileDisk)[i])

\* A finished scan with records of two workers and a port that refused.
C5_Witness ==
    /\ mainPc = "exited"
    /\ JoinCompleted
    /\ Cardinality(ThreadsOf(RecordsOf(fileDisk))) = 2
    /\ \E p \in PortsOf(dispensed) : p \notin openPorts

\* ------------------------------------------------------------------ C6
\* C6: when socket() fails for a dispensed port the worker gives up that
\* port only and goes on to its next get_next_port call; the failure does
\* not end the worker.
C6_SocketFailureContinues ==
    [][\A w \in WorkerIds :
          (wpc[w] = "socket" /\ wpc'[w] # "socket" /\ wsock'[w] = NoSocket)
              => wpc'[w] = "lock_q"]_vars

\* ------------------------------------------------------------------ C7
MainBeforeJoinEnd == mainPc \in {"spawn", "join"}

\* C7: on the path where all workers were spawned, main prints the
\* completion line, closes the file, frees the port array and destroys
\* the queue lock only after every worker has terminated, and no worker
\* takes a step once the join loop has completed.
C7_ReleaseAfterJoin ==
    /\ [](AllSpawned =>
            /\ ~MainBeforeJoinEnd => (JoinCompleted /\ AllWorkersDone)
            /\ ~AllWorkersDone =>
                   /\ fileOpen
                   /\ DOMAIN qports # {}
                   /\ qlockAlive
                   /\ wsaUp
                   /\ \A i \in DOMAIN console : console[i] # Lit("Scan complete."))
    /\ [][JoinCompleted => workerVars' = workerVars]_vars

\* A scan by two workers that both probed has run to its end.
C7_Witness ==
    /\ mainPc = "exited"
    /\ exitCode = 0
    /\ ~fileOpen
    /\ Cardinality(ThreadsOf(dispensed)) = 2

\* ------------------------------------------------------------------ C8
\* C8: the cursor never decreases and stays within 0..size; it grows by
\* exactly 1 with each port dispensed and not at all in a call that
\* returns -1 (which happens only when it equals size); the ports
\* dispensed, in the order of the critical sections, are start, start+1,
\* ... (while the queue main built is the one the workers use).
C8_CursorAscending ==
    /\ [](~ubQueue =>
            /\ 0 <= qindex /\ qindex <= qsize
            /\ Len(dispensed) = qindex
            /\ \A i \in 1..Len(dispensed) : dispensed[i][2] = start + i - 1)
    /\ [][~ubQueue' =>
            /\ \/ qindex' = qindex /\ dispensed' = dispensed
               \/ qindex' = qindex + 1 /\ Len(dispensed') = Len(dispensed) + 1
            /\ \A w \in Workers :
                   (wport'[w] = Exhausted /\ wport[w] # Exhausted)
                       => (qindex' = qindex /\ qindex = qsize)]_vars

\* The whole of a range of at least two ports was dispensed and a call
\* returned -1.
C8_Witness ==
    /\ ~ubQueue
    /\ qsize >= 2
    /\ qindex = qsize
    /\ \E w \in Workers : wport[w] = Exhausted

\* ------------------------------------------------------------------ C9
NothingDispensedTo(w) == w \notin ThreadsOf(dispensed)

\* C9: under fair scheduling main returns, and once all workers are
\* spawned every worker terminates and the join loop completes, for every
\* worker count and range size; a worker whose first get_next_port
\* returns -1 has terminated without creating a socket, attempting a
\* connection or writing a record.
C9_Termination ==
    /\ <>(mainPc = "exited")
    /\ AllSpawned ~> (JoinCompleted /\ AllWorkersDone)
    /\ [](\A w \in Workers :
            (wport[w] = Exhausted /\ NothingDispensedTo(w)) =>
                /\ wpc[w] = "done"
                /\ wsock[w] = NoSocket
                /\ \A x \in connected \cup sockFailed : x[1] # w
                /\ w \notin ThreadsOf(RecordsOf(console))
                /\ w \notin ThreadsOf(RecordsOf(fileDisk \o fileBuf)))

\* More workers than ports, a single-port range (start = end): a worker
\* found the queue exhausted at its first call and the scan has ended.
C9_Witness ==
    /\ mainPc = "exited"
    /\ JoinCompleted
    /\ qsize = 1
    /\ num_threads > qsize
    /\ \E w \in Workers : wport[w] = Exhausted /\ NothingDispensedTo(w)
    /\ \E w \in Workers : ~NothingDispensedTo(w)

\* ----------------------------------------------------------------- C10
\* C10: every record is exactly one line of the log file whatever the
\* banner holds: the number of lines of the file is the number of its
\* records.
C10_OneLinePerRecord == LineFeeds(fileDisk) = Len(RecordsOf(fileDisk))

\* ------------------------------------------------------------------ C11
\* C11 as stated: while the spawn loop of lines 167-183 still has workers
\* to create, no get_next_port call has returned -1.
C11_SpawnedBeforeExhausted ==
    mainPc = "spawn" => \A w \in WorkerIds : wport[w] # Exhausted

\* C11, amended: all num_threads workers are spawned before main starts to
\* join them, and a get_next_port call returns -1 only when the cursor has
\* reached the size of the queue and every port of the range has been
\* dispensed; that can happen while the spawn loop still has workers to
\* create.
C11_ExhaustedOnlyWhenAllDispensed ==
    /\ mainPc \in {"join", "stats"} => AllSpawned
    /\ ~ubQueue =>
           \A w \in WorkerIds :
               wport[w] = Exhausted =>
                   /\ qindex = qsize
                   /\ PortsOf(dispensed) = PortSet

\* A worker found the queue exhausted while main has a worker left to
\* create.
C11_Witness ==
    /\ mainPc = "spawn"
    /\ spawned < num_threads
    /\ ~ubQueue
    /\ \E w \in Workers : wport[w] = Exhausted /\ wpc[w] = "done"

\* ------------------------------------------------------------------ C12
\* A record with a banner starts here: the file's " OPEN - banner: ", or
\* the console's " OPEN", colour reset, " - banner: ".
BannerAt(t) ==
    \/ Len(t) >= 5 /\ t[5] = Lit(" OPEN - banner: ")
    \/ Len(t) >= 7 /\ t[5] = Lit(" OPEN") /\ t[6] = COLOR_RESET
                   /\ t[7] = Lit(" - banner: ")

\* <<thread id, port>> of every record with a banner in t, in order.
RECURSIVE BannerRecordsOf(_)
BannerRecordsOf(t) ==
    IF Len(t) < 4 THEN << >>
    ELSE IF t[1] = Lit("[Thread ") /\ BannerAt(t)
         THEN << <<t[2].n, t[4].n>> >> \o BannerRecordsOf(Tail(t))
         ELSE BannerRecordsOf(Tail(t))

SetOf(q) == {q[i] : i \in DOMAIN q}

\* The probe c = <<worker, port>> connected and its worker has not yet
\* made the write to the console (to the file).
BeforePrintf(c) == wport[c[1]] = c[2] /\ wpc[c[1]] \in {"recv", "lock_p", "printf"}
BeforeFprintf(c) == BeforePrintf(c) \/ (wport[c[1]] = c[2] /\ wpc[c[1]] = "fprintf")

\* Main has not closed the output file.
FileNotYetClosed == mainPc \in {"spawn", "join", "stats", "fclose"}

\* Every probe that connected has its record on the console and, while
\* the file is open, in the file, as soon as its worker made the write.
EveryConnectRecorded ==
    \A c \in connected :
        /\ BeforePrintf(c) \/ c \in SetOf(RecordsOf(console))
        /\ FileNotYetClosed =>
               BeforeFprintf(c) \/ c \in SetOf(RecordsOf(fileDisk \o fileBuf))

\* C12: in fast mode no recv is made for any port, a worker goes from a
\* successful connect to the output with n = 0, every successful connect
\* gets its record, and no record on either channel has a banner.
C12_FastModeNeverReads ==
    FULL_MODE = 0 =>
        /\ \A p \in DOMAIN reads : reads[p] = 0
        /\ \A w \in WorkerIds : wpc[w] # "recv" /\ wn[w] = 0 /\ wbanner[w] = << >>
        /\ EveryConnectRecorded
        /\ BannerRecordsOf(console) = << >>
        /\ BannerRecordsOf(fileBuf) = << >>
        /\ BannerRecordsOf(fileDisk) = << >>

\* A fast scan has ended with the record of a port whose service sends a
\* greeting.
C12_Witness ==
    /\ FULL_MODE = 0
    /\ JoinCompleted
    /\ \E c \in connected :
           /\ ServicePayload(c[2]) # << >>
           /\ c \in SetOf(RecordsOf(fileDisk))
           /\ c \in SetOf(RecordsOf(console))

\* ------------------------------------------------------------------ C13
\* Where the last record of t starts.
LastRecordStart(t) ==
    CHOOSE i \in DOMAIN t :
        /\ t[i] = Lit("[Thread ")
        /\ \A j \in DOMAIN t : j > i => t[j] # Lit("[Thread ")

\* The last record of t has a banner.
LastRecordHasBanner(t) == BannerAt(SubSeq(t, LastRecordStart(t), Len(t)))

\* The workers that connected to port p and have not yet made the recv.
AtRecv(p) == {w \in Workers : wpc[w] = "recv" /\ wport[w] = p}

\* The connected probes of port p whose worker is past the recv.
PastRecv(p) == {c \in connected : c[2] = p /\ c[1] \notin AtRecv(p)}

\* C13: in full mode each successful connect is followed by one recv
\* (every port has as many recv calls as connected probes past that
\* step); the record a worker writes has a banner exactly when its n is
\* positive; n never exceeds sizeof(banner) - 1, the buffer holds n bytes,
\* and the terminator of line 267 goes to an index in 1..511.
C13_OneBoundedRead ==
    FULL_MODE # 0 =>
        /\ ~ubQueue =>
               \A p \in DOMAIN reads : reads[p] = Cardinality(PastRecv(p))
        /\ EveryConnectRecorded
        /\ \A w \in Workers :
               /\ wn[w] \in -1..(BannerBuf - 1)
               /\ RunsLen(wbanner[w]) = (IF wn[w] > 0 THEN wn[w] ELSE 0)
               /\ RunsLen(wbanner[w]) < BannerBuf
               /\ (InPrintSection(w) /\ wn[w] > 0) => wn[w] \in 1..511
               /\ wpc[w] \in {"fprintf", "fflush", "unlock_p"} =>
                      (LastRecordHasBanner(console) <=> wn[w] > 0)
               /\ (fileOpen /\ wpc[w] = "fflush") =>
                      (LastRecordHasBanner(fileBuf) <=> wn[w] > 0)
               /\ (fileOpen /\ wpc[w] = "unlock_p") =>
                      (LastRecordHasBanner(fileDisk) <=> wn[w] > 0)

\* A worker has written a banner cut at 511 bytes to the console, after
\* records of a read that returned 0 and of one that timed out.
C13_Witness ==
    /\ FULL_MODE # 0
    /\ \E w \in Workers :
           /\ wpc[w] = "fprintf"
           /\ wn[w] = BannerBuf - 1
           /\ RunsLen(ServicePayload(wport[w])) > BannerBuf
    /\ Len(RecordsOf(console)) = 3
    /\ Len(BannerRecordsOf(console)) = 1

\* ------------------------------------------------------------------ C14
\* Worker w is between socket()'s success and the return of closesocket.
Probing(w) ==
    wpc[w] \in {"connect", "recv", "lock_p", "printf", "fprintf", "fflush",
                "unlock_p", "close"}

\* C14: a worker calls closesocket once for each socket it created,
\* before its next get_next_port call and before it ends: while it probes
\* it has made one call less than it created sockets and holds the handle
\* of the one it has not closed, which is open as long as Winsock is up
\* (so no call is a second close); outside a probe it has closed every
\* socket it created and holds none; no handle is open but those of
\* probing workers.
C14_SocketClosedOnce ==
    /\ \A w \in WorkerIds :
           /\ Probing(w) =>
                  /\ created[w] = closed[w] + 1
                  /\ wsock[w] # NoSocket
                  /\ wsaUp => wsock[w] \in openHandles
           /\ ~Probing(w) =>
                  /\ created[w] = closed[w]
                  /\ wsock[w] = NoSocket
    /\ openHandles \subseteq {wsock[w] : w \in {v \in WorkerIds : Probing(v)}}

\* One worker has probed a port that refused, one that sent a banner and
\* one that sent nothing, closed the three sockets and ended.
C14_Witness ==
    \E w \in Workers :
        /\ wpc[w] = "done"
        /\ wport[w] = Exhausted
        /\ created[w] = 3
        /\ closed[w] = 3
        /\ Cardinality({c \in connected : c[1] = w}) = 2
        /\ Len(BannerRecordsOf(fileDisk)) = 1
        /\ openHandles = {}
        /\ wsaUp

\* ------------------------------------------------------------------ C15
\* The workers that hold handle h in their s.
HoldersOf(h) == {w \in WorkerIds : Probing(w) /\ wsock[w] = h}

\* C15: every open socket is held by one worker, the one that created it
\* (connect, recv and closesocket are called by a worker on its own s
\* only); two probing workers hold different handles; so a worker has at
\* most one open socket and there are never more open sockets than
\* workers.
C15_SocketsOwnedByCreator ==
    /\ \A h \in openHandles : HoldersOf(h) = {sockOwner[h]}
    /\ \A w, v \in WorkerIds :
           (w # v /\ Probing(w) /\ Probing(v)) => wsock[w] # wsock[v]
    /\ \A w \in WorkerIds :
           Cardinality({h \in openHandles : sockOwner[h] = w}) <= 1
    /\ Cardinality(openHandles) <= spawned
    /\ Cardinality(openHandles) <= num_threads

\* As many sockets are open as there are workers, and the worker that
\* holds the second handle has closed a socket before.
C15_Witness ==
    /\ num_threads = MaxWorkers
    /\ Cardinality(openHandles) = num_threads
    /\ \E w \in Workers :
           /\ wpc[w] = "connect"
           /\ wsock[w] = OpenSocket + 1
           /\ closed[w] >= 1

\* ------------------------------------------------------------------ C16
\* Port p was dispensed to w and w has not yet made the connect call for
\* it.
BeforeConnect(w, p) ==
    wport[w] = p /\ wpc[w] \in {"unlock", "socket", "connect"}

\* The ports for which socket() failed.
SocketFailedPorts == {x[2] : x \in sockFailed}

\* The connect calls made so far for the ports of the range: none for a
\* port that was not dispensed, whose worker is not yet past connect, or
\* for which no socket could be created; one for every other port.
AttemptsAsDispensed ==
    /\ \A p \in DOMAIN attempts : attempts[p] <= 1
    /\ \A p \in DOMAIN attempts \ PortsOf(dispensed) : attempts[p] = 0
    /\ \A i \in DOMAIN dispensed :
           LET w == dispensed[i][1]
               p == dispensed[i][2]
           IN  attempts[p] =
                   (IF BeforeConnect(w, p) \/ p \in SocketFailedPorts
                    THEN 0 ELSE 1)

\* A connect that fails is followed by closesocket on the same socket,
\* and closesocket by the next get_next_port call.
FailedConnectMovesOn ==
    \A w \in WorkerIds :
        /\ (wpc[w] = "connect" /\ wpc'[w] # "connect"
                /\ ConnectResult(wport[w]) # 0)
               => (wpc'[w] = "close" /\ wsock'[w] = wsock[w])
        /\ (wpc[w] = "close" /\ wpc'[w] # "close")
               => (wpc'[w] = "lock_q" /\ attempts' = attempts)

\* C16: no port is tried twice: at most one connect call is made for any
\* port, exactly one for each dispensed port whose socket was created,
\* and a failed connect goes straight to closesocket and from there to
\* the next get_next_port call.
C16_NoRetry ==
    /\ [](~ubQueue => AttemptsAsDispensed)
    /\ [][FailedConnectMovesOn]_vars

\* A scan has ended in which one port refused, one accepted, and for one
\* no socket could be created.
C16_Witness ==
    /\ JoinCompleted
    /\ ~ubQueue
    /\ \E p \in PortSet : p \notin openPorts /\ attempts[p] = 1
    /\ \E p \in PortSet : p \in {c[2] : c \in connected} /\ attempts[p] = 1
    /\ \E p \in SocketFailedPorts : attempts[p] = 0

\* ------------------------------------------------------------------ C17
\* Worker w is between the lock and the unlock of get_next_port.
InQueueSection(w) ==
    wpc[w] \in {"check", "take", "take_w", "unlock", "unlock_ex"}

\* The holder of q->lock is inside get_next_port, with no socket, outside
\* the output section, and can take its next step whatever the other
\* threads do.
QueueHolderNeverWaits ==
    \A w \in WorkerIds :
        qlock = w =>
            /\ InQueueSection(w)
            /\ ~Probing(w)
            /\ ~InPrintSection(w)
            /\ wsock[w] = NoSocket
            /\ plock # w
            /\ Running => ENABLED get_next_port(w)

\* A step of the holder of q->lock creates, connects, reads or closes no
\* socket and writes to no channel; it tests the cursor or stores the
\* value it read plus one, which moves the cursor up by one as long as
\* the lock has not been destroyed under the workers.
QueueHolderStepsQuiet ==
    \A w \in WorkerIds :
        (qlock = w /\ wpc'[w] # wpc[w]) =>
            /\ sinkVars' = sinkVars
            /\ probeVars' = probeVars
            /\ wsock' = wsock
            /\ connected' = connected
            /\ sockFailed' = sockFailed
            /\ qindex' = (IF wpc[w] = "take_w" THEN widx[w] + 1 ELSE qindex)
            /\ ~ubQueue' => qindex' \in {qindex, qindex + 1}
            /\ wpc[w] = "check" => wpc'[w] \in {"take", "unlock_ex"}
            /\ wpc[w] = "take" => wpc'[w] = "take_w"
            /\ wpc[w] = "take_w" => wpc'[w] = "unlock"
            /\ wpc[w] \in {"unlock", "unlock_ex"} => qlock' # w

\* C17: between the lock and the unlock of q->lock a worker does no
\* socket call and no output; the section is the test of the cursor and,
\* if a port is left, one read and one increment of it, and the holder is
\* never blocked inside it.
C17_QueueSectionIsPure ==
    /\ []QueueHolderNeverWaits
    /\ [][QueueHolderStepsQuiet]_vars

\* A worker is about to store the incremented cursor while the other
\* waits for q->lock and a probe of that other worker is on record.
C17_Witness ==
    \E w, v \in Workers :
        /\ w # v
        /\ qlock = w
        /\ wpc[w] = "take_w"
        /\ wpc[v] = "lock_q"
        /\ v \in ThreadsOf(RecordsOf(fileDisk))
        /\ qlockAlive

\* ------------------------------------------------------------------ C18
\* The step is one of worker w.
WorkerStep(w) == wpc[w] # "unborn" /\ wpc'[w] # wpc[w]

\* C18: a step of a worker leaves the target address, the mode, the
\* timeout, the range, the port array, the queue size and all of main's
\* state as they are; it changes the cursor only if the worker holds
\* q->lock, and the console, the stdio buffer or the file only if the
\* worker holds print_lock.
C18_WorkersMutateOnlyUnderLocks ==
    [][\A w \in WorkerIds :
          WorkerStep(w) =>
              /\ cfgVars' = cfgVars
              /\ qsize' = qsize
              /\ qports' = qports
              /\ qlockAlive' = qlockAlive
              /\ mainVars' = mainVars
              /\ fileOpen' = fileOpen
              /\ (qindex' # qindex /\ ~ubQueue') => qlock = w
              /\ (console' # console \/ fileBuf' # fileBuf
                      \/ fileDisk' # fileDisk) => plock = w]_vars

\* One worker holds q->lock and the other print_lock, after the cursor
\* was moved and records of both workers were written.
C18_Witness ==
    \E w, v \in Workers :
        /\ qlock = w
        /\ wpc[w] = "unlock"
        /\ plock = v
        /\ wpc[v] = "unlock_p"
        /\ qindex = MaxPorts
        /\ Cardinality(ThreadsOf(RecordsOf(fileDisk))) = 2
        /\ ~ubQueue

\* ------------------------------------------------------------------ C19
\* A lock is held only inside the section it guards: no worker holds
\* both locks, waits for one while it holds the other, or holds one when
\* it creates a socket or has ended.
LocksHeldInsideSections ==
    \A w \in WorkerIds :
        /\ ~(qlock = w /\ plock = w)
        /\ qlock = w => InQueueSection(w)
        /\ plock = w => InPrintSection(w)
        /\ wpc[w] \in {"lock_q", "lock_p", "socket", "done", "unborn"} =>
               (qlock # w /\ plock # w)

\* A lock goes from held to free only by a step of its holder.
ReleasedByHolder ==
    \A w \in WorkerIds :
        /\ (qlock = w /\ qlock' # w) => (WorkerStep(w) /\ qlock' = Unlocked)
        /\ (plock = w /\ plock' # w) => (WorkerStep(w) /\ plock' = Unlocked)

\* No worker holds a lock or waits for one.
LocksQuiet ==
    /\ qlock = Unlocked
    /\ plock = Unlocked
    /\ \A w \in WorkerIds : wpc[w] \notin {"lock_q", "lock_p"}

\* C19: the two locks cannot deadlock.  No worker holds q->lock and
\* print_lock together or ends with a lock, a lock is released by its
\* holder only, and under fair scheduling, whenever a lock is held or
\* waited for, a later moment comes at which every lock has been released
\* and every waiting worker has got its lock, on the exhausted path of
\* get_next_port as on the others, unless main returns and ends the
\* process first.
C19_LocksReleased ==
    /\ []LocksHeldInsideSections
    /\ [][ReleasedByHolder]_vars
    /\ []<>(LocksQuiet \/ ~Running)

\* A worker has released q->lock on the exhausted path and ended while
\* the other holds print_lock.
C19_Witness ==
    \E w, v \in Workers :
        /\ w # v
        /\ wpc[w] = "done"
        /\ wport[w] = Exhausted
        /\ plock = v
        /\ wpc[v] = "fflush"
        /\ qlock = Unlocked
        /\ qlockAlive

\* ------------------------------------------------------------------ C20
\* Main has closed the output file, freed the port array or destroyed
\* q->lock.
SharedReleased == ~fileOpen \/ qports = << >> \/ ~qlockAlive

\* C20: main does not close the output file, free the port array or
\* destroy q->lock while a worker it has spawned has not ended, whether
\* or not the allocation of a worker's argument failed.
C20_NoReleaseUnderRunningWorker ==
    SharedReleased => \A w \in WorkerIds : wpc[w] \in {"unborn", "done"}

====
